---- MODULE Spec2Model ----
(***************************************************************************)
(* The two native bridges of ILGPU:                                        *)
(*   - ILGPU.LLVM/Extensions.cpp: the NVVM reflect pass bridge             *)
(*   - ILGPU.Lightning.Native/Cuda/*.h: the CUB primitive bridges          *)
(* A caller thread is at "idle", begins a bridge call, walks through the   *)
(* statements of the bridge function and reaches "done" with the call's    *)
(* observable outcome, then returns to "idle".  The external libraries     *)
(* (LLVM's pass managers, CUB's device-wide primitives) are the            *)
(* environment: what the bridge hands them is recorded, what they answer   *)
(* (status, scratch size) is chosen nondeterministically.                  *)
(***************************************************************************)
EXTENDS Integers, Sequences, FiniteSets, TLC

\* Bounds of the model.
NumThreads == 2
NumGlobals == 3
MaxCalls == 2

Threads == 1..NumThreads

VARIABLES
    pc,       \* pc[t]: the statement caller t is at
    call,     \* call[t]: the bridge function t called, with its arguments
    mapping,  \* mapping[s]: the StringMap<int> local of CreateNVVMReflectPass
    pm,       \* pm[t]: the passes added to t's pass manager, in order
    module,   \* module[t]: the LLVM module t owns
    pre,      \* pre[t]: module[t] as it was when the call began
    mem,      \* mem[p]: the contents of the caller-owned memory cell p
    cub,      \* cub[t]: the CUB calls made during t's bridge call
    resp,     \* resp[t]: what CUB answered to t's call
    ret,      \* ret[t]: the value the bridge returned to t
    premem,   \* premem[t]: t's memory as it was when the call began
    started   \* number of bridge calls begun so far

vars == <<pc, call, mapping, pm, module, pre, mem, cub, resp, ret, premem, started>>
llvmVars == <<mapping, pm, module, pre>>
cubVars == <<mem, cub, resp, ret, premem>>

(***************************************************************************)
(* LLVM side: modules, globals, passes                                     *)
(***************************************************************************)

\* The globals of a module are identified by their address.
GlobalAddrs == 1..NumGlobals

\* A global value that lives in another module (it is never part of module[t]).
ForeignGlobal == NumGlobals + 1

\* LLVMValueRef arguments: null (0), a global of the module, a foreign global.
ValueRefs == 0..ForeignGlobal

\* The symbol name of a global; the foreign global carries the name of global 1.
NameOf(a) == IF a = ForeignGlobal THEN 1 ELSE a

\* The last global of a module is a global variable, the others are functions.
IsFunction(a) == a \in GlobalAddrs /\ a < NumGlobals

\* LLVMBool is an int: any nonzero value is true.
LLVMBools == {0, 1, 2}

\* StringMap<int>::operator[]= : one entry per key.
StringMapSet(m, key, value) == {e \in m : e[1] # key} \cup {<<key, value>>}

\* `StringMap<int> mapping;` is an automatic variable: one per activation.
MappingSlotStatic(t) == 1
MappingSlot(t) == t

\* if (ftz) mapping["__CUDA_FTZ"] = 1;
FtzEntriesOnlyOne(m, ftz) == IF ftz = 1 THEN StringMapSet(m, "__CUDA_FTZ", 1) ELSE m
FtzEntries(m, ftz) == IF ftz # 0 THEN StringMapSet(m, "__CUDA_FTZ", 1) ELSE m

\* if (fm) { mapping["__CUDA_PREC_DIV"] = 0; mapping["__CUDA_PREC_SQRT"] = 0; }
FmEntries(m, fm) ==
    IF fm # 0
    THEN StringMapSet(StringMapSet(m, "__CUDA_PREC_DIV", 0), "__CUDA_PREC_SQRT", 0)
    ELSE m

\* createNVVMReflectPass(mapping): the pass keeps a copy of the mapping.
NVVMReflectPass(m) == [kind |-> "nvvmreflect", arg |-> m]

\* The predicate handed to createInternalizePass: &val == entryPoint.
MustPreserveByName(val, entryPoint) == NameOf(val) = NameOf(entryPoint)
MustPreserveGV(val, entryPoint) == val = entryPoint

InternalizePass(entryPoint) == [kind |-> "internalize", arg |-> entryPoint]
GlobalDCEPass == [kind |-> "globaldce", arg |-> 0]

\* The passes ILGPU_PreparePTXModule adds before the reflect pass.
PreparePassesSwapped(entry) == <<GlobalDCEPass, InternalizePass(entry)>>
PreparePasses(entry) == <<InternalizePass(entry), GlobalDCEPass>>

\* Internalize: every global the predicate does not preserve gets internal linkage.
Internalize(M, entryPoint) ==
    [a \in GlobalAddrs |->
        IF M[a].present /\ ~MustPreserveGV(a, entryPoint)
        THEN [M[a] EXCEPT !.linkage = "internal"]
        ELSE M[a]]

\* The globals reachable from the set S through references.
RECURSIVE Reach(_, _)
Reach(M, S) ==
    LET N == S \cup UNION {M[a].refs : a \in S}
    IN IF N = S THEN S ELSE Reach(M, N)

\* GlobalDCE: a global that is not reachable from an externally visible one is removed.
GlobalDCE(M) ==
    LET live == Reach(M, {a \in GlobalAddrs : M[a].present /\ M[a].linkage = "external"})
    IN [a \in GlobalAddrs |->
           IF M[a].present /\ a \notin live
           THEN [M[a] EXCEPT !.present = FALSE]
           ELSE M[a]]

\* The reflect pass run over the single function f: f's body has been rewritten.
ReflectFunction(M, f) ==
    [a \in GlobalAddrs |->
        IF a = f /\ IsFunction(a) /\ M[a].present
        THEN [M[a] EXCEPT !.reflected = TRUE]
        ELSE M[a]]

\* The reflect pass, a function pass, run by a module pass manager: every function.
ReflectModule(M) ==
    [a \in GlobalAddrs |->
        IF IsFunction(a) /\ M[a].present
        THEN [M[a] EXCEPT !.reflected = TRUE]
        ELSE M[a]]

RunPass(p, M) ==
    CASE p.kind = "internalize" -> Internalize(M, p.arg)
      [] p.kind = "globaldce" -> GlobalDCE(M)
      [] p.kind = "nvvmreflect" -> ReflectModule(M)

\* legacy::PassManager::run: the passes run in the order they were added.
RECURSIVE PassManagerRun(_, _)
PassManagerRun(passes, M) ==
    IF passes = <<>> THEN M
    ELSE PassManagerRun(Tail(passes), RunPass(Head(passes), M))

\* legacy::FunctionPassManager::run(F): the function passes run over F alone.
RECURSIVE FunctionPassManagerRun(_, _, _)
FunctionPassManagerRun(passes, M, f) ==
    IF passes = <<>> THEN M
    ELSE FunctionPassManagerRun(Tail(passes), ReflectFunction(M, f), f)

\* legacy::FunctionPassManager fpm(unwrap(module)); fpm.add(pass); fpm.run(*target)
RunOnFunctionWholeModule(passes, M, func) == PassManagerRun(passes, M)
RunOnFunction(passes, M, func) == FunctionPassManagerRun(passes, M, func)

\* legacy::PassManager pm; pm.add(...); pm.run(*unwrap(module))
RunOnModule(passes, M) == PassManagerRun(passes, M)

\* The modules a caller may own when the model starts.
RefShapes ==
    { [a \in GlobalAddrs |-> {}],
      [a \in GlobalAddrs |-> IF a < NumGlobals THEN {a + 1} ELSE {}],
      [a \in GlobalAddrs |-> IF a = 1 THEN GlobalAddrs \ {1} ELSE {}] }

InitialModules ==
    { [a \in GlobalAddrs |->
          [linkage |-> l[a], present |-> TRUE, refs |-> r[a], reflected |-> FALSE]] :
      l \in [GlobalAddrs -> {"external", "internal"}], r \in RefShapes }

NoCall == [op |-> "none", ref |-> 0, ftz |-> 0, fm |-> 0]

\* The calls of the LLVM bridge.
LLVMCalls ==
    [op : {"RunNVVMReflectPassOnFunction"}, ref : {a \in GlobalAddrs : IsFunction(a)},
     ftz : LLVMBools, fm : LLVMBools]
    \cup [op : {"RunNVVMReflectPass"}, ref : {0}, ftz : LLVMBools, fm : LLVMBools]
    \cup [op : {"PreparePTXModule"}, ref : ValueRefs, ftz : LLVMBools, fm : LLVMBools]

IsLLVMCall(c) ==
    c.op \in {"RunNVVMReflectPassOnFunction", "RunNVVMReflectPass", "PreparePTXModule"}

\* Entry of an LLVM bridge function, up to its call of CreateNVVMReflectPass.
\* A function handle must designate a function that is still part of the module.
BeginLLVM(t, c) ==
    /\ pc[t] = "idle"
    /\ c.op = "RunNVVMReflectPassOnFunction" => module[t][c.ref].present
    /\ call' = [call EXCEPT ![t] = c]
    /\ pre' = [pre EXCEPT ![t] = module[t]]
    /\ pm' = [pm EXCEPT ![t] =
                 IF c.op = "PreparePTXModule" THEN PreparePasses(c.ref) ELSE <<>>]
    /\ pc' = [pc EXCEPT ![t] = "map_init"]
    /\ UNCHANGED <<mapping, module, cubVars>>

\* StringMap<int> mapping;
MapInit(t) ==
    /\ pc[t] = "map_init"
    /\ mapping' = [mapping EXCEPT ![MappingSlot(t)] = {}]
    /\ pc' = [pc EXCEPT ![t] = "map_ftz"]
    /\ UNCHANGED <<call, pm, module, pre, cubVars, started>>

MapFtz(t) ==
    /\ pc[t] = "map_ftz"
    /\ mapping' = [mapping EXCEPT ![MappingSlot(t)] = FtzEntries(@, call[t].ftz)]
    /\ pc' = [pc EXCEPT ![t] = "map_fm"]
    /\ UNCHANGED <<call, pm, module, pre, cubVars, started>>

MapFm(t) ==
    /\ pc[t] = "map_fm"
    /\ mapping' = [mapping EXCEPT ![MappingSlot(t)] = FmEntries(@, call[t].fm)]
    /\ pc' = [pc EXCEPT ![t] = "create"]
    /\ UNCHANGED <<call, pm, module, pre, cubVars, started>>

\* return createNVVMReflectPass(mapping); the local mapping is destroyed, and the
\* caller adds the pass to its pass manager.
CreatePass(t) ==
    /\ pc[t] = "create"
    /\ pm' = [pm EXCEPT ![t] = Append(@, NVVMReflectPass(mapping[MappingSlot(t)]))]
    /\ mapping' = [mapping EXCEPT ![MappingSlot(t)] = {}]
    /\ pc' = [pc EXCEPT ![t] = "run"]
    /\ UNCHANGED <<call, module, pre, cubVars, started>>

\* fpm.run(*(Function*)target) or pm.run(*unwrap(module)).
RunPasses(t) ==
    /\ pc[t] = "run"
    /\ module' = [module EXCEPT ![t] =
                     IF call[t].op = "RunNVVMReflectPassOnFunction"
                     THEN RunOnFunction(pm[t], @, call[t].ref)
                     ELSE RunOnModule(pm[t], @)]
    /\ pc' = [pc EXCEPT ![t] = "done"]
    /\ UNCHANGED <<call, mapping, pm, pre, cubVars, started>>

\* The bridge function returns; its pass manager is destroyed.
ReturnLLVM(t) ==
    /\ pc[t] = "done"
    /\ IsLLVMCall(call[t])
    /\ call' = [call EXCEPT ![t] = NoCall]
    /\ pm' = [pm EXCEPT ![t] = <<>>]
    /\ pre' = [pre EXCEPT ![t] = module[t]]
    /\ pc' = [pc EXCEPT ![t] = "idle"]
    /\ UNCHANGED <<mapping, module, cubVars, started>>

(***************************************************************************)
(* CUB side: the exported primitive functions                              *)
(***************************************************************************)

\* Pointers are (owner, cell) pairs; the null pointer belongs to nobody.
NullPtr == <<0, "null">>
Ptr(t, cell) == <<t, cell>>

\* The cells of a caller's memory whose contents the model follows.  "stack" is
\* the bridge function's own frame.
Cells == {"size", "stack", "source", "target", "valuesSource", "valuesTarget"}

\* SignedVariants.h and UnsignedVariants.h: the element types.
SignedTypeNames == {"Int8", "Int16", "Int32", "Int64"}
UnsignedTypeNames == {"UInt8", "UInt16", "UInt32", "UInt64"}
TypeNames == SignedTypeNames \cup UnsignedTypeNames

\* MAKE_RADIXSORT / MAKE_SEGMENTED_RADIXSORT: every instantiation generates the
\* ascending function (empty prefix) and the Descending one.
Prefixes == {"", "Descending"}

\* The macro parameters of an instantiation, per header.
SortHeaders == {"RadixSort", "RadixSortPairs", "SegmentedRadixSort", "SegmentedRadixSortPairs"}
IsPairs(h) == h \in {"RadixSortPairs", "SegmentedRadixSortPairs"}
IsSegmented(h) == h \in {"SegmentedRadixSort", "SegmentedRadixSortPairs"}
CubNameOf(h) == IF IsPairs(h) THEN "SortPairs" ELSE "SortKeys"
ScanVariants == {"Inclusive", "Exclusive"}

\* The exported functions: one per (header, prefix, variant, cubName, typeName).
SortFunctions ==
    { [header |-> h, prefix |-> p, variant |-> "", cubName |-> CubNameOf(h), typeName |-> ty] :
      h \in SortHeaders, p \in Prefixes, ty \in TypeNames }
ScanFunctions ==
    [header : {"Scan"}, prefix : {""}, variant : ScanVariants, cubName : {""},
     typeName : TypeNames]

\* Cuda##prefix##variant##RadixSort##typeName[##IndexPairs],
\* Cuda##postfix##prefix##variant##RadixSort##typeName[##IndexPairs],
\* Cuda##variant##Scan##typeName
ExportedName(fn) ==
    IF fn.header = "Scan" THEN "Cuda" \o fn.variant \o "Scan" \o fn.typeName
    ELSE "Cuda" \o (IF IsSegmented(fn.header) THEN "Segmented" ELSE "")
                \o fn.prefix \o fn.variant \o "RadixSort" \o fn.typeName
                \o (IF IsPairs(fn.header) THEN "IndexPairs" ELSE "")

\* cub::DeviceRadixSort::cubName##prefix, cub::DeviceSegmentedRadixSort::cubName##prefix,
\* cub::DeviceScan::variant##Sum
CubPrimitiveIgnoringPrefix(fn) ==
    IF fn.header = "Scan" THEN "cub::DeviceScan::" \o fn.variant \o "Sum"
    ELSE IF IsSegmented(fn.header) THEN "cub::DeviceSegmentedRadixSort::" \o fn.cubName
    ELSE "cub::DeviceRadixSort::" \o fn.cubName
CubPrimitive(fn) ==
    IF fn.header = "Scan" THEN "cub::DeviceScan::" \o fn.variant \o "Sum"
    ELSE IF IsSegmented(fn.header)
         THEN "cub::DeviceSegmentedRadixSort::" \o fn.cubName \o fn.prefix
         ELSE "cub::DeviceRadixSort::" \o fn.cubName \o fn.prefix

\* A 32-bit quantity is hi * 2^16 + lo with 0 <= lo < 2^16: an unsigned one has
\* 0 <= hi < 2^16, a signed one -2^15 <= hi < 2^15.  Two quantities are
\* numerically equal exactly when their hi and lo are equal.
Wide(hi, lo) == [hi |-> hi, lo |-> lo]

\* (int)numElements of a uint32_t: the value modulo 2^32, read as two's complement.
CastUInt32ToInt(w) == IF w.hi >= 32768 THEN Wide(w.hi - 65536, w.lo) ELSE w

\* (int)x of an int32_t: int is 32 bits wide, the value is kept.
CastInt32ToInt(x) == x

\* *tempStorageSize binds to CUB's `size_t &temp_storage_bytes`: the same location.
SizeRefCopy(p) == Ptr(p[1], "stack")
SizeRef(p) == p

\* The argument lists, in the order the bridge writes them.
RadixSortForward(a) ==
    <<a.tempStorage, SizeRef(a.tempStorageSize), a.source, a.target,
      CastInt32ToInt(a.numElements), CastInt32ToInt(a.beginBit), CastInt32ToInt(a.endBit),
      a.stream>>

RadixSortPairsForward(a) ==
    <<a.tempStorage, SizeRef(a.tempStorageSize), a.source, a.target,
      a.valuesSource, a.valuesTarget,
      CastInt32ToInt(a.numElements), CastInt32ToInt(a.beginBit), CastInt32ToInt(a.endBit),
      a.stream>>

SegmentedRadixSortForwardSwapped(a) ==
    <<a.tempStorage, SizeRef(a.tempStorageSize), a.source, a.target,
      CastInt32ToInt(a.numElements), CastInt32ToInt(a.numSegments),
      a.endOffsets, a.beginOffsets,
      CastInt32ToInt(a.beginBit), CastInt32ToInt(a.endBit), a.stream>>
SegmentedRadixSortForward(a) ==
    <<a.tempStorage, SizeRef(a.tempStorageSize), a.source, a.target,
      CastInt32ToInt(a.numElements), CastInt32ToInt(a.numSegments),
      a.beginOffsets, a.endOffsets,
      CastInt32ToInt(a.beginBit), CastInt32ToInt(a.endBit), a.stream>>

SegmentedRadixSortPairsForward(a) ==
    <<a.tempStorage, SizeRef(a.tempStorageSize), a.source, a.target,
      a.valuesSource, a.valuesTarget,
      CastInt32ToInt(a.numElements), CastInt32ToInt(a.numSegments),
      a.beginOffsets, a.endOffsets,
      CastInt32ToInt(a.beginBit), CastInt32ToInt(a.endBit), a.stream>>

ScanForward(a) ==
    <<a.tempStorage, SizeRef(a.tempStorageSize), a.source, a.target,
      CastUInt32ToInt(a.numElements), a.stream>>

Forward(fn, a) ==
    CASE fn.header = "RadixSort" -> RadixSortForward(a)
      [] fn.header = "RadixSortPairs" -> RadixSortPairsForward(a)
      [] fn.header = "SegmentedRadixSort" -> SegmentedRadixSortForward(a)
      [] fn.header = "SegmentedRadixSortPairs" -> SegmentedRadixSortPairsForward(a)
      [] fn.header = "Scan" -> ScanForward(a)

\* The parameters of the CUB primitives, in the order of their declarations.
CubParameters(header) ==
    CASE header = "RadixSort" ->
            <<"d_temp_storage", "temp_storage_bytes", "d_keys_in", "d_keys_out",
              "num_items", "begin_bit", "end_bit", "stream">>
      [] header = "RadixSortPairs" ->
            <<"d_temp_storage", "temp_storage_bytes", "d_keys_in", "d_keys_out",
              "d_values_in", "d_values_out", "num_items", "begin_bit", "end_bit", "stream">>
      [] header = "SegmentedRadixSort" ->
            <<"d_temp_storage", "temp_storage_bytes", "d_keys_in", "d_keys_out",
              "num_items", "num_segments", "d_begin_offsets", "d_end_offsets",
              "begin_bit", "end_bit", "stream">>
      [] header = "SegmentedRadixSortPairs" ->
            <<"d_temp_storage", "temp_storage_bytes", "d_keys_in", "d_keys_out",
              "d_values_in", "d_values_out", "num_items", "num_segments",
              "d_begin_offsets", "d_end_offsets", "begin_bit", "end_bit", "stream">>
      [] header = "Scan" ->
            <<"d_temp_storage", "temp_storage_bytes", "d_in", "d_out", "num_items", "stream">>

\* The value CUB's parameter `name` is bound to by the positional argument list.
Received(header, arglist, name) ==
    LET ps == CubParameters(header)
    IN arglist[CHOOSE i \in 1..Len(ps) : ps[i] = name]

\* The output buffers a primitive writes when it executes.
OutputPtrs(header, arglist) ==
    IF header = "Scan" THEN {Received(header, arglist, "d_out")}
    ELSE {Received(header, arglist, "d_keys_out")}
         \cup (IF IsPairs(header) THEN {Received(header, arglist, "d_values_out")} ELSE {})

\* return cub::...(...): the status goes back as it is.
ReturnValueSuccessOrOne(status) == IF status = 0 THEN 0 ELSE 1
ReturnValue(status) == status

\* cudaError_t values CUB may answer: cudaSuccess and two failures.
CudaErrors == {0, 2, 9}

\* Scratch sizes CUB may ask for.
ScratchSizes == {1, 256}

NoResponse == [status |-> 0, bytes |-> 0]

\* What a caller may pass.  A caller passes pointers to its own memory.
NumElementsValues == {-1, 0, 5}
NumSegmentsValues == {0, 2}
BeginBitValues == {0, 8}
EndBitValues == {8, 32}
StreamValues == {0, 7}
UInt32Values == {Wide(hi, lo) : hi \in {0, 32767, 32768, 65535}, lo \in {0, 5, 65535}}

SortArgs(t, h) ==
    [tempStorage : {NullPtr, Ptr(t, "temp")},
     tempStorageSize : {Ptr(t, "size")},
     source : {Ptr(t, "source")},
     target : {Ptr(t, "target")},
     valuesSource : IF IsPairs(h) THEN {Ptr(t, "valuesSource")} ELSE {NullPtr},
     valuesTarget : IF IsPairs(h) THEN {Ptr(t, "valuesTarget")} ELSE {NullPtr},
     numElements : NumElementsValues,
     beginOffsets : IF IsSegmented(h) THEN {Ptr(t, "beginOffsets")} ELSE {NullPtr},
     endOffsets : IF IsSegmented(h) THEN {Ptr(t, "endOffsets")} ELSE {NullPtr},
     numSegments : IF IsSegmented(h) THEN NumSegmentsValues ELSE {0},
     beginBit : BeginBitValues,
     endBit : EndBitValues,
     stream : StreamValues]

ScanArgs(t) ==
    [tempStorage : {NullPtr, Ptr(t, "temp")},
     tempStorageSize : {Ptr(t, "size")},
     source : {Ptr(t, "source")},
     target : {Ptr(t, "target")},
     numElements : UInt32Values,
     stream : StreamValues]

CubCalls(t) ==
    UNION { { [op |-> "cub", fn |-> fn, args |-> a] : a \in SortArgs(t, fn.header) } :
            fn \in SortFunctions }
    \cup { [op |-> "cub", fn |-> fn, args |-> a] : fn \in ScanFunctions, a \in ScanArgs(t) }

\* The memory m with the value v stored in the cells ptrs designates.
Store(m, ptrs, v) == [p \in DOMAIN m |-> IF p \in ptrs THEN v ELSE m[p]]

OwnMemory(t) == [c \in Cells |-> mem[Ptr(t, c)]]

\* Entry of an exported primitive function.
BeginCub(t, c) ==
    /\ pc[t] = "idle"
    /\ call' = [call EXCEPT ![t] = c]
    /\ premem' = [premem EXCEPT ![t] = OwnMemory(t)]
    /\ pc' = [pc EXCEPT ![t] = "cub"]
    /\ UNCHANGED <<llvmVars, mem, cub, resp, ret>>

\* The one statement of the function: the call of the CUB primitive and the
\* return of its status.  CUB, given a null d_temp_storage, only computes the
\* scratch size and stores it through temp_storage_bytes; given scratch memory
\* it does the work and writes its output buffers.
CubCall(t) ==
    /\ pc[t] = "cub"
    /\ LET fn == call[t].fn
           arglist == Forward(fn, call[t].args)
           sizing == Received(fn.header, arglist, "d_temp_storage") = NullPtr
           sizeAt == Received(fn.header, arglist, "temp_storage_bytes")
           outs == OutputPtrs(fn.header, arglist)
       IN \E status \in CudaErrors, bytes \in ScratchSizes :
            /\ cub' = [cub EXCEPT ![t] =
                          Append(@, [prim |-> CubPrimitive(fn), args |-> arglist])]
            /\ resp' = [resp EXCEPT ![t] =
                           [status |-> status,
                            bytes |-> IF sizing /\ status = 0 THEN bytes ELSE 0]]
            /\ mem' = IF status # 0 THEN mem
                      ELSE IF sizing THEN Store(mem, {sizeAt}, bytes)
                      ELSE Store(mem, outs, 1)
            /\ ret' = [ret EXCEPT ![t] = ReturnValue(status)]
    /\ pc' = [pc EXCEPT ![t] = "done"]
    /\ UNCHANGED <<call, llvmVars, premem, started>>

\* The caller has the status and goes on.
ReturnCub(t) ==
    /\ pc[t] = "done"
    /\ call[t].op = "cub"
    /\ call' = [call EXCEPT ![t] = NoCall]
    /\ cub' = [cub EXCEPT ![t] = <<>>]
    /\ resp' = [resp EXCEPT ![t] = NoResponse]
    /\ ret' = [ret EXCEPT ![t] = 0]
    /\ premem' = [premem EXCEPT ![t] = OwnMemory(t)]
    /\ pc' = [pc EXCEPT ![t] = "idle"]
    /\ UNCHANGED <<llvmVars, mem, started>>

(***************************************************************************)
(* Specifications                                                          *)
(***************************************************************************)

\* A module whose globals are all externally visible, the first referencing the rest.
KernelModule ==
    [a \in GlobalAddrs |->
        [linkage |-> "external", present |-> TRUE,
         refs |-> IF a = 1 THEN GlobalAddrs \ {1} ELSE {}, reflected |-> FALSE]]

InitWith(M) ==
    /\ pc = [t \in Threads |-> "idle"]
    /\ call = [t \in Threads |-> NoCall]
    /\ mapping = [t \in Threads |-> {}]
    /\ pm = [t \in Threads |-> <<>>]
    /\ module = [t \in Threads |-> M]
    /\ pre = module
    /\ mem = [p \in Threads \X Cells |-> 0]
    /\ premem = [t \in Threads |-> [c \in Cells |-> 0]]
    /\ cub = [t \in Threads |-> <<>>]
    /\ resp = [t \in Threads |-> NoResponse]
    /\ ret = [t \in Threads |-> 0]
    /\ started = 0

InitLLVM == \E M \in InitialModules : InitWith(M)

\* One caller using the LLVM bridge, call after call.
SeqBeginLLVM ==
    /\ pc[1] = "idle"
    /\ \E c \in LLVMCalls : BeginLLVM(1, c)
    /\ UNCHANGED started

NextLLVM ==
    \/ SeqBeginLLVM
    \/ MapInit(1)
    \/ MapFtz(1)
    \/ MapFm(1)
    \/ CreatePass(1)
    \/ RunPasses(1)
    \/ ReturnLLVM(1)

SpecLLVM == InitLLVM /\ [][NextLLVM]_vars


\* One caller using the primitive bridge, call after call.
InitCub == InitWith(KernelModule)

SeqBeginCub ==
    /\ pc[1] = "idle"
    /\ \E c \in CubCalls(1) : BeginCub(1, c)
    /\ UNCHANGED started

NextCub ==
    \/ SeqBeginCub
    \/ CubCall(1)
    \/ ReturnCub(1)

SpecCub == InitCub /\ [][NextCub]_vars


\* Several callers at once, each on its own module and its own memory.  At most
\* MaxCalls calls are begun in a behaviour.
ConcurrentLLVMCalls ==
    [op : {"RunNVVMReflectPass"}, ref : {0}, ftz : {0, 1}, fm : {0, 1}]
    \cup [op : {"PreparePTXModule"}, ref : {1}, ftz : {0, 2}, fm : {0}]

ConcurrentCubCalls(t) ==
    { [op |-> "cub", fn |-> fn, args |-> a] :
        fn \in {f \in ScanFunctions : f.variant = "Inclusive" /\ f.typeName = "UInt32"},
        a \in {x \in ScanArgs(t) : x.numElements = Wide(0, 5) /\ x.stream = 0} }
    \cup
    { [op |-> "cub", fn |-> fn, args |-> a] :
        fn \in {f \in SortFunctions : /\ f.header = "SegmentedRadixSortPairs"
                                      /\ f.prefix = "Descending"
                                      /\ f.typeName = "Int32"},
        a \in {x \in SortArgs(t, "SegmentedRadixSortPairs") :
                   /\ x.tempStorage # NullPtr /\ x.numElements = 5 /\ x.numSegments = 2
                   /\ x.beginBit = 0 /\ x.endBit = 32 /\ x.stream = 7} }

ConcBeginLLVM(t) ==
    /\ pc[t] = "idle"
    /\ started < MaxCalls
    /\ started' = started + 1
    /\ \E c \in ConcurrentLLVMCalls : BeginLLVM(t, c)

ConcBeginCub(t) ==
    /\ pc[t] = "idle"
    /\ started < MaxCalls
    /\ started' = started + 1
    /\ \E c \in ConcurrentCubCalls(t) : BeginCub(t, c)

NextConcurrent ==
    \E t \in Threads :
        \/ ConcBeginLLVM(t)
        \/ ConcBeginCub(t)
        \/ MapInit(t)
        \/ MapFtz(t)
        \/ MapFm(t)
        \/ CreatePass(t)
        \/ RunPasses(t)
        \/ ReturnLLVM(t)
        \/ CubCall(t)
        \/ ReturnCub(t)

SpecConcurrent == InitWith(KernelModule) /\ [][NextConcurrent]_vars


(***************************************************************************)
(* Properties                                                              *)
(***************************************************************************)

\* The mapping the two flags stand for: __CUDA_FTZ = 1 when ftz is nonzero,
\* __CUDA_PREC_DIV = 0 and __CUDA_PREC_SQRT = 0 when fm is nonzero, nothing else.
ExpectedMapping(ftz, fm) ==
    (IF ftz # 0 THEN {<<"__CUDA_FTZ", 1>>} ELSE {})
    \cup (IF fm # 0 THEN {<<"__CUDA_PREC_DIV", 0>>, <<"__CUDA_PREC_SQRT", 0>>} ELSE {})

ReflectPassesOf(passes) == SelectSeq(passes, LAMBDA p : p.kind = "nvvmreflect")

PassKinds(passes) == [i \in 1..Len(passes) |-> passes[i].kind]

ExternallyVisible(M) == {a \in GlobalAddrs : M[a].present /\ M[a].linkage = "external"}

\* C1: in every call of the three LLVM bridge functions, the pass manager holds
\* exactly one reflect pass once CreateNVVMReflectPass has returned, and its
\* mapping is exactly the one the call's two flags stand for (each flag on its
\* own, any nonzero value counting as true, both zero giving the empty mapping).
C1_ReflectMapping ==
    \A t \in Threads :
        (pc[t] \in {"run", "done"} /\ IsLLVMCall(call[t]))
        => ReflectPassesOf(pm[t])
             = <<NVVMReflectPass(ExpectedMapping(call[t].ftz, call[t].fm))>>

C1_Witness ==
    \E t \in Threads :
        /\ pc[t] = "done"
        /\ call[t].op = "PreparePTXModule"
        /\ call[t].ftz = 2
        /\ call[t].fm = 0
        /\ pm[t][3].arg = {<<"__CUDA_FTZ", 1>>}

\* C2: when ILGPU_PreparePTXModule is done, the globals of the module that are
\* externally visible are those that were externally visible before and are the
\* very object entry designates: every other global that was in the module is now
\* internal or removed, and an externally visible entry stays in the module,
\* externally visible.
C2_OnlyEntryVisible ==
    \A t \in Threads :
        (pc[t] = "done" /\ call[t].op = "PreparePTXModule")
        => /\ ExternallyVisible(module[t]) = ExternallyVisible(pre[t]) \cap {call[t].ref}
           /\ \A a \in GlobalAddrs :
                 (pre[t][a].present /\ a # call[t].ref)
                 => (~module[t][a].present \/ module[t][a].linkage = "internal")

C2_Witness ==
    \E t \in Threads :
        /\ pc[t] = "done"
        /\ call[t].op = "PreparePTXModule"
        /\ call[t].ref = 1
        /\ ExternallyVisible(pre[t]) = GlobalAddrs
        /\ ExternallyVisible(module[t]) = {1}
        /\ \E a \in GlobalAddrs : a # 1 /\ module[t][a].present

\* C3: ILGPU_PreparePTXModule runs exactly three passes, once each, in the order
\* internalization, global dead-code elimination, reflect pass; the module it
\* leaves is the one these three transformations produce in that order.
C3_PassOrder ==
    \A t \in Threads :
        /\ (pc[t] \in {"run", "done"} /\ call[t].op = "PreparePTXModule")
           => PassKinds(pm[t]) = <<"internalize", "globaldce", "nvvmreflect">>
        /\ (pc[t] = "done" /\ call[t].op = "PreparePTXModule")
           => module[t] = ReflectModule(GlobalDCE(Internalize(pre[t], call[t].ref)))

C3_Witness ==
    \E t \in Threads :
        /\ pc[t] = "done"
        /\ call[t].op = "PreparePTXModule"
        /\ \E a \in GlobalAddrs :
              /\ pre[t][a].present
              /\ pre[t][a].linkage = "external"
              /\ ~module[t][a].present

\* C8: when ILGPU_RunNVVMReflectPassOnFunction is done, the function func
\* designates has been rewritten by the reflect pass and every other global of
\* the module is as it was; when ILGPU_RunNVVMReflectPass is done, every function
\* of the module has been rewritten and nothing else has changed.
C8_ReflectScope ==
    \A t \in Threads :
        /\ (pc[t] = "done" /\ call[t].op = "RunNVVMReflectPassOnFunction")
           => module[t] = [pre[t] EXCEPT ![call[t].ref].reflected = TRUE]
        /\ (pc[t] = "done" /\ call[t].op = "RunNVVMReflectPass")
           => module[t] =
                 [a \in GlobalAddrs |->
                     [pre[t][a] EXCEPT !.reflected =
                         @ \/ (IsFunction(a) /\ pre[t][a].present)]]

C8_Witness ==
    \E t \in Threads :
        /\ pc[t] = "done"
        /\ call[t].op = "RunNVVMReflectPassOnFunction"
        /\ module[t][call[t].ref].reflected
        /\ ~pre[t][call[t].ref].reflected
        /\ \E g \in GlobalAddrs :
              /\ g # call[t].ref
              /\ IsFunction(g)
              /\ module[t][g].present
              /\ ~module[t][g].reflected

\* C4: when an exported primitive function is done, it has called CUB exactly
\* once, whatever its arguments, and the value it returned is the status that
\* call produced, success or failure.
C4_StatusForwarded ==
    \A t \in Threads :
        (pc[t] = "done" /\ call[t].op = "cub")
        => /\ Len(cub[t]) = 1
           /\ ret[t] = resp[t].status

C4_Witness ==
    \E t \in Threads :
        /\ pc[t] = "done"
        /\ call[t].op = "cub"
        /\ call[t].fn.header = "RadixSort"
        /\ call[t].args.numElements = -1
        /\ Len(cub[t]) = 1
        /\ resp[t].status = 9
        /\ ret[t] = 9

\* C5: after a sizing query (null scratch pointer) that CUB answered with success,
\* the location tempStorageSize points to holds the size CUB computed, and the
\* caller's other memory (source, target, index payload buffers) is as it was.
C5_SizingQuery ==
    \A t \in Threads :
        (pc[t] = "done" /\ call[t].op = "cub" /\ call[t].args.tempStorage = NullPtr)
        => /\ resp[t].status = 0 => mem[call[t].args.tempStorageSize] = resp[t].bytes
           /\ \A c \in Cells \ {"size"} : mem[Ptr(t, c)] = premem[t][c]

C5_Witness ==
    \E t \in Threads :
        /\ pc[t] = "done"
        /\ call[t].op = "cub"
        /\ call[t].fn.header = "SegmentedRadixSortPairs"
        /\ call[t].args.tempStorage = NullPtr
        /\ resp[t].status = 0
        /\ resp[t].bytes = 256
        /\ premem[t]["size"] = 1
        /\ mem[Ptr(t, "size")] = 256
        /\ premem[t]["target"] = 1

\* The primitive each exported function stands for.
ExpectedPrimitive(fn) ==
    CASE fn.header = "Scan" /\ fn.variant = "Inclusive" -> "cub::DeviceScan::InclusiveSum"
      [] fn.header = "Scan" /\ fn.variant = "Exclusive" -> "cub::DeviceScan::ExclusiveSum"
      [] fn.header = "RadixSort" /\ fn.prefix = "" -> "cub::DeviceRadixSort::SortKeys"
      [] fn.header = "RadixSort" /\ fn.prefix = "Descending" ->
            "cub::DeviceRadixSort::SortKeysDescending"
      [] fn.header = "RadixSortPairs" /\ fn.prefix = "" -> "cub::DeviceRadixSort::SortPairs"
      [] fn.header = "RadixSortPairs" /\ fn.prefix = "Descending" ->
            "cub::DeviceRadixSort::SortPairsDescending"
      [] fn.header = "SegmentedRadixSort" /\ fn.prefix = "" ->
            "cub::DeviceSegmentedRadixSort::SortKeys"
      [] fn.header = "SegmentedRadixSort" /\ fn.prefix = "Descending" ->
            "cub::DeviceSegmentedRadixSort::SortKeysDescending"
      [] fn.header = "SegmentedRadixSortPairs" /\ fn.prefix = "" ->
            "cub::DeviceSegmentedRadixSort::SortPairs"
      [] fn.header = "SegmentedRadixSortPairs" /\ fn.prefix = "Descending" ->
            "cub::DeviceSegmentedRadixSort::SortPairsDescending"

\* C6: the primitive an exported function calls is the one its identity stands
\* for, whatever the arguments: the ascending function calls the ascending
\* primitive, the Descending one its descending counterpart, the Inclusive scan
\* the inclusive sum, the Exclusive scan the exclusive sum; and the argument list
\* is the one the ascending function forwards for the same arguments.
C6_PrimitiveByIdentity ==
    \A t \in Threads :
        (pc[t] = "done" /\ call[t].op = "cub")
        => /\ cub[t][1].prim = ExpectedPrimitive(call[t].fn)
           /\ cub[t][1].args = Forward([call[t].fn EXCEPT !.prefix = ""], call[t].args)

C6_Witness ==
    \E t \in Threads :
        /\ pc[t] = "done"
        /\ call[t].op = "cub"
        /\ ExportedName(call[t].fn) = "CudaSegmentedDescendingRadixSortInt32IndexPairs"
        /\ cub[t][1].prim = "cub::DeviceSegmentedRadixSort::SortPairsDescending"

\* C7: with several callers at once, each on its own module and memory, and
\* whatever was called before, what a call hands to the external library (the
\* passes with the reflect mapping, the primitive with its argument list) is what
\* its own arguments determine, and the status it returns is the one the library
\* answered to it.
C7_CallsIndependent ==
    \A t \in Threads :
        /\ (pc[t] \in {"run", "done"} /\ IsLLVMCall(call[t]))
           => pm[t] =
                 (IF call[t].op = "PreparePTXModule"
                  THEN <<InternalizePass(call[t].ref), GlobalDCEPass>> ELSE <<>>)
                 \o <<NVVMReflectPass(ExpectedMapping(call[t].ftz, call[t].fm))>>
        /\ (pc[t] = "done" /\ call[t].op = "cub")
           => /\ cub[t] = <<[prim |-> ExpectedPrimitive(call[t].fn),
                             args |-> Forward(call[t].fn, call[t].args)]>>
              /\ ret[t] = resp[t].status

C7_Witness ==
    \E t1, t2 \in Threads :
        /\ t1 # t2
        /\ pc[t1] = "done"
        /\ pc[t2] = "done"
        /\ call[t1].op = "RunNVVMReflectPass"
        /\ call[t2].op = "PreparePTXModule"
        /\ call[t1].ftz = 1
        /\ call[t1].fm = 1
        /\ call[t2].ftz = 0
        /\ Cardinality(pm[t1][1].arg) = 3 /\ pm[t2][3].arg = {}

\* C9: the element count CUB receives from a scan function is numerically equal
\* to the count the caller passed, for every unsigned 32-bit count.
C9_ScanCountForwarded ==
    \A t \in Threads :
        (pc[t] = "done" /\ call[t].op = "cub" /\ call[t].fn.header = "Scan")
        => Received("Scan", cub[t][1].args, "num_items") = call[t].args.numElements

\* C10: CUB receives each argument of a segmented sort function in the parameter
\* of the same role: the begin offsets as begin offsets, the end offsets as end
\* offsets, the segment count as segment count, the element count as element
\* count, begin_bit and end_bit as the bit range, and with index pairs the index
\* source and target as the value input and output.
C10_SegmentedRoles ==
    \A t \in Threads :
        (pc[t] = "done" /\ call[t].op = "cub" /\ IsSegmented(call[t].fn.header))
        => LET h == call[t].fn.header
               a == call[t].args
               got(name) == Received(h, cub[t][1].args, name)
           IN /\ got("d_begin_offsets") = a.beginOffsets
              /\ got("d_end_offsets") = a.endOffsets
              /\ got("num_segments") = a.numSegments
              /\ got("num_items") = a.numElements
              /\ got("begin_bit") = a.beginBit
              /\ got("end_bit") = a.endBit
              /\ got("d_keys_in") = a.source
              /\ got("d_keys_out") = a.target
              /\ IsPairs(h) => /\ got("d_values_in") = a.valuesSource
                               /\ got("d_values_out") = a.valuesTarget

C10_Witness ==
    \E t \in Threads :
        /\ pc[t] = "done"
        /\ call[t].op = "cub"
        /\ call[t].fn.header = "SegmentedRadixSortPairs"
        /\ call[t].args.numElements = 5
        /\ call[t].args.numSegments = 2
        /\ Received("SegmentedRadixSortPairs", cub[t][1].args, "num_segments") = 2
        /\ Received("SegmentedRadixSortPairs", cub[t][1].args, "d_end_offsets")
             = Ptr(t, "endOffsets")

====
